---- MODULE Spec2Model ----
(***************************************************************************)
(* Inovesa: the step orchestrator (src/src/main.cpp), the older            *)
(* orchestrator (src/unnamed/part_000) and the Fokker-Planck stencil       *)
(* constructor (src/unnamed/part_001).                                     *)
(*                                                                         *)
(* Four specifications share the module:                                    *)
(*   Spec    the orchestrators, from option parsing to the exit status;    *)
(*   SpecFP  the FokkerPlanckMap constructor and the application of the    *)
(*           stencil it builds, with its inputs drawn from bounded sets.   *)
(*   SpecLoop  the header of the main loop with its unsigned counter;      *)
(*   SpecImp   the statements of main() that touch the impedance.          *)
(* Floating point values are modelled as exact rationals.                  *)
(***************************************************************************)
EXTENDS Integers, Sequences, FiniteSets, TLC

VARIABLES
    \* ---- Fokker-Planck map (part_001) ----
    fp,            \* constructor arguments: xsize, ysize, fpt, e0, delta, pmin
    fp_pc,         \* "idle" | "ctor" | "built" | "crashed" | "applied"
    fp_i,          \* outer loop counter i of the constructor
    heritage_map,  \* flat array of (index, weight): slot (i*_ysize+j)*_ip+k
    oob,           \* slots written outside the allocated array
    mesh_in,       \* data of the input mesh handed to apply()
    mesh_out       \* data of the output mesh written by apply()

fvars == <<fp, fp_pc, fp_i, heritage_map, oob, mesh_in, mesh_out>>

VARIABLES
    \* ---- orchestrators (main.cpp, part_000) ----
    prog,          \* "main" (main.cpp) | "legacy" (part_000) | "none"
    pc,            \* the position in main()
    status,        \* "running" | "EXIT_SUCCESS" | "EXIT_FAILURE" | "crashed"
    detected,      \* the conditions the code's own checks have detected
    o,             \* the options and the locals derived from them
    display,       \* display != nullptr
    oclActive,     \* OCLH::active
    hdf_file,      \* hdf_file != nullptr
    impedance,     \* "null" | "built"
    maps,          \* the handles wm, wkm, rm1, rm2, fpm
    meshes,        \* the meshes allocated so far (1, 2, 3)
    mesh,          \* per mesh, the maps its data has gone through: <<kind, step>>
    xprojFresh,    \* updateXProjection() ran after the last write to mesh1's data
    yprojFresh,    \* updateYProjection() ran after the last write to mesh1's data
    staleReads,    \* the consumers that have read a projection that was not fresh
    i,             \* the loop counter of the main simulation loop
    outstepnr,     \* the snapshot counter
    hcount,        \* the loop counter of the Haissinski loop
    oplog,         \* the operations of the current loop step, in order
    nApplied,      \* the number of map apply() calls so far
    nSnap,         \* the number of snapshots emitted so far
    diverged,      \* an integral of mesh1 computed in the loop was not finite
    order,         \* the objects constructed so far, in order
    times,         \* the time stamps appended to the HDF5 file, in order
    sinklog        \* the statements of the last snapshot block and of the
                   \* final save, in order

VARIABLES
    lp,            \* the loop header alone: steps, rot2, i, n, pc, wrapped
    im             \* the impedance alone: options, pc, value, field, atField

lvars == <<lp, im>>

ovars == <<prog, pc, status, detected, o, display, oclActive, hdf_file,
           impedance, maps, meshes, mesh, xprojFresh, yprojFresh, staleReads,
           i, outstepnr, hcount, oplog, nApplied, nSnap,
           diverged, order, times, sinklog>>

vars == <<ovars, fvars, lvars>>

(***************************************************************************)
(* Bounds of the model.  The options steps, outstep, rotations,            *)
(* renormalize and the number of Haissinski iterations are drawn from 0,   *)
(* 1 and the bound; rotations are counted in halves.                       *)
(***************************************************************************)
MaxXSize == 2
MaxYSize == 4
MaxENum  == 2
MaxDNum  == 2
MaxSteps        == 2
MaxOutstep      == 2
MaxHalfRotations == 2
MaxRenormalize  == 2
MaxHaisi        == 1
MaxRotationType == 3
GridSize        == 2

(***************************************************************************)
(* Exact rational arithmetic (stands for double / interpol_t).             *)
(***************************************************************************)
RECURSIVE GCD(_, _)
GCD(a, b) == IF b = 0 THEN a ELSE GCD(b, a % b)

Abs(n) == IF n < 0 THEN -n ELSE n

R(n, d) ==
    LET s == IF d < 0 THEN -1 ELSE 1
        g == GCD(Abs(n), Abs(d))
    IN  [n |-> (s * n) \div g, d |-> (s * d) \div g]

RInt(n)    == [n |-> n, d |-> 1]
RAdd(a, b) == R(a.n * b.d + b.n * a.d, a.d * b.d)
RNeg(a)    == [n |-> -a.n, d |-> a.d]
RSub(a, b) == RAdd(a, RNeg(b))
RMul(a, b) == R(a.n * b.n, a.d * b.d)
RDiv(a, b) == R(a.n * b.d, a.d * b.n)

Zero == RInt(0)
One  == RInt(1)
Two  == RInt(2)

(***************************************************************************)
(* FokkerPlanckMap::FokkerPlanckMap (part_001) on the HeritageMap layout   *)
(* (part_000, class HeritageMap).                                          *)
(***************************************************************************)
FPTypes == {"none", "damping_only", "diffusion_only", "full"}

TwoPow16 == 65536

\* HeritageMap takes xsize and ysize as uint16_t
Uint16(v) == v % TwoPow16

\* _ip: the number of interpolation points handed to HeritageMap
ip == 3

xsizeOf(a) == Uint16(a.xsize)
ysizeOf(a) == Uint16(a.ysize)
\* _size: _xsize*_ysize cells, each with _ip entries
sizeOf(a)  == xsizeOf(a) * ysizeOf(a)

\* the entry _heritage_map[i][j][k] in the flat array _hinfo
Slot(a, ix, j, k) == (ix * ysizeOf(a) + j) * ip + k

Allocated(a) == 0 .. (sizeOf(a) * ip - 1)

\* in->x(1,j): the p coordinate of row j on the ruler of axis 1
x(a, j) == RAdd(a.pmin, RMul(RInt(j), a.delta))

e02d(e0, delta)  == RDiv(e0, RMul(Two, delta))
\* a slip: the diffusion coefficient halved
e02d2_half(e0, delta) == RDiv(e0, RMul(Two, RMul(delta, delta)))
e02d2(e0, delta) == RDiv(e0, RMul(delta, delta))
daome(e0)        == RAdd(One, e0)
\* a slip: the diffusion-only centre weight carries the damping term +e0
diome_with_e(e0, delta) ==
    RSub(RAdd(One, e0), RMul(Two, e02d2(e0, delta)))
diome(e0, delta) == RSub(One, RMul(Two, e02d2(e0, delta)))
\* a slip: the centre weight loses the diffusion term once only
fptme_once(e0, delta) == RSub(RAdd(One, e0), e02d2(e0, delta))
fptme(e0, delta) == RSub(RAdd(One, e0), RMul(Two, e02d2(e0, delta)))

hi(index, weight) == [index |-> index, weight |-> weight]

\* the entry {0,0} written to the rows 0 and _ysize-1
\* a slip: the boundary rows keep their cell
BoundaryEntry_keep == hi(0, One)
BoundaryEntry == hi(0, Zero)

\* a slip: an interior row takes the cell of the row below with weight 1
InteriorRow_shifted(a, ix, j) ==
    << hi(ix * ysizeOf(a) + j - 1, One), hi(0, Zero), hi(0, Zero) >>

\* the three entries of an interior row j of column i, by variant
InteriorRow(a, ix, j) ==
    LET c  == ix * ysizeOf(a) + j
        pj == x(a, j)
    IN CASE a.fpt = "none" ->
              << hi(c, One), hi(0, Zero), hi(0, Zero) >>
         [] a.fpt = "damping_only" ->
              << hi(c - 1, RMul(e02d(a.e0, a.delta), pj)),
                 hi(c, daome(a.e0)),
                 hi(c + 1, RNeg(RMul(e02d(a.e0, a.delta), pj))) >>
         [] a.fpt = "diffusion_only" ->
              << hi(c - 1, e02d2(a.e0, a.delta)),
                 hi(c, diome(a.e0, a.delta)),
                 hi(c + 1, e02d2(a.e0, a.delta)) >>
         [] a.fpt = "full" ->
              << hi(c - 1, RAdd(e02d2(a.e0, a.delta),
                                RMul(e02d(a.e0, a.delta), pj))),
                 hi(c, fptme(a.e0, a.delta)),
                 hi(c + 1, RSub(e02d2(a.e0, a.delta),
                                RMul(e02d(a.e0, a.delta), pj))) >>

\* the writes of one row, in the order of the code: <<slot, entry>>
RowWrites(a, ix, j, row) ==
    << <<Slot(a, ix, j, 0), row[1]>>,
       <<Slot(a, ix, j, 1), row[2]>>,
       <<Slot(a, ix, j, 2), row[3]>> >>

BoundaryRow == << BoundaryEntry, BoundaryEntry, BoundaryEntry >>

\* for (uint16_t j=1; j< _ysize-1; j++): the bound is an int, -1 for _ysize 0
RECURSIVE InteriorWrites(_, _, _)
InteriorWrites(a, ix, j) ==
    IF j < ysizeOf(a) - 1
    THEN RowWrites(a, ix, j, InteriorRow(a, ix, j)) \o InteriorWrites(a, ix, j + 1)
    ELSE << >>

\* the body of the loop over i: row 0, the interior rows, row _ysize-1
ColumnWrites(a, ix) ==
    RowWrites(a, ix, 0, BoundaryRow)
    \o InteriorWrites(a, ix, 1)
    \o RowWrites(a, ix, ysizeOf(a) - 1, BoundaryRow)

\* the array after the writes ws; a write outside the array leaves it as it is
RECURSIVE Store(_, _, _)
Store(a, hm, ws) ==
    IF ws = << >> THEN hm
    ELSE LET w == Head(ws)
         IN Store(a,
                  IF w[1] \in Allocated(a)
                  THEN [hm EXCEPT ![w[1]] = w[2]] ELSE hm,
                  Tail(ws))

OutOfBounds(a, ws) ==
    { ws[n][1] : n \in { m \in 1 .. Len(ws) : ws[m][1] \notin Allocated(a) } }

\* new hi[_ip*_size]: the entries are not initialised
Uninitialised == hi(-1, Zero)

FPInputs ==
    [ xsize : 0 .. MaxXSize,
      ysize : 0 .. MaxYSize,
      fpt   : FPTypes,
      e0    : { R(n, 2) : n \in 0 .. MaxENum },
      delta : { R(n, 2) : n \in 1 .. MaxDNum },
      pmin  : { RNeg(One), Zero } ]

FPIdle ==
    /\ fp = [xsize |-> 0, ysize |-> 0, fpt |-> "none",
             e0 |-> Zero, delta |-> One, pmin |-> Zero]
    /\ fp_pc = "idle"
    /\ fp_i = 0
    /\ heritage_map = << >>
    /\ oob = {}
    /\ mesh_in = << >>
    /\ mesh_out = << >>

InitFPMap ==
    /\ fp \in FPInputs
    /\ fp_pc = "ctor"
    /\ fp_i = 0
    /\ heritage_map = [s \in Allocated(fp) |-> Uninitialised]
    /\ oob = {}
    /\ mesh_in = << >>
    /\ mesh_out = << >>

\* one pass of for (unsigned int i=0; i< _xsize; i++)
FPColumn ==
    /\ fp_pc = "ctor"
    /\ fp_i < xsizeOf(fp)
    /\ heritage_map' = Store(fp, heritage_map, ColumnWrites(fp, fp_i))
    /\ oob' = oob \cup OutOfBounds(fp, ColumnWrites(fp, fp_i))
    /\ fp_i' = fp_i + 1
    /\ UNCHANGED <<fp, fp_pc, mesh_in, mesh_out, ovars, lvars>>

\* the loop ends; a write outside the array is undefined behaviour, after which
\* the constructor may return or the process may die
FPConstructed ==
    /\ fp_pc = "ctor"
    /\ fp_i >= xsizeOf(fp)
    /\ fp_pc' \in (IF oob = {} THEN {"built"} ELSE {"built", "crashed"})
    /\ UNCHANGED <<fp, fp_i, heritage_map, oob, mesh_in, mesh_out, ovars, lvars>>

Cells(a) == 0 .. (sizeOf(a) - 1)

\* the meshes apply() is tried on: the unit meshes, the constant and a ramp
InputMeshes(a) ==
    { [c \in Cells(a) |-> IF c = k THEN 1 ELSE 0] : k \in Cells(a) }
    \cup { [c \in Cells(a) |-> 1], [c \in Cells(a) |-> c + 1] }

\* HeritageMap::apply: out[c] = sum over k of weight_k * in[index_k]
ApplyHM(a, hm, in) ==
    [ c \in Cells(a) |->
        LET e(k) == hm[c * ip + k]
            t(k) == RMul(e(k).weight, RInt(in[e(k).index]))
        IN RAdd(RAdd(t(0), t(1)), t(2)) ]

FPApply ==
    /\ fp_pc = "built"
    /\ \E in \in InputMeshes(fp) :
          /\ mesh_in' = in
          /\ mesh_out' = ApplyHM(fp, heritage_map, in)
    /\ fp_pc' = "applied"
    /\ UNCHANGED <<fp, fp_i, heritage_map, oob, ovars, lvars>>

NextFP == FPColumn \/ FPConstructed \/ FPApply


(***************************************************************************)
(* The step orchestrator: main() of src/src/main.cpp, built with OpenCL,   *)
(* HDF5, PNG and the GUI.                                                  *)
(***************************************************************************)
Null == [kind |-> "null", in |-> 0, out |-> 0]

\* a source map reading mesh `in` and writing mesh `out`
Map(kind, in, out) == [kind |-> kind, in |-> in, out |-> out]

NoMaps == [wm |-> Null, wkm |-> Null, rm1 |-> Null, rm2 |-> Null, fpm |-> Null]

NoOptions ==
    [ps_size |-> 0, steps |-> 1, outstep |-> 0, rot2 |-> 0,
     renormalize |-> 0, haisi |-> 0, gap |-> 0, td |-> FALSE]

\* the vacuum chamber gap as the orchestrator uses it: it is tested against
\* 0 only (gap != 0), so one gap other than 0 stands for all; the sign
\* matters to the kind of the impedance, which is followed on its own
Gaps == {-1, 0}

Max(a, b) == IF a >= b THEN a ELSE b

cfgv  == <<o, display, oclActive, hdf_file>>
objv  == <<impedance, maps, meshes, mesh>>
projv == <<xprojFresh, yprojFresh, staleReads>>
loopv == <<i, outstepnr, hcount, oplog, nApplied, nSnap>>
newv  == <<diverged, order, times, sinklog>>

\* return <st>
Exit(st) == pc' = "exit" /\ status' = st

\* a consumer reads a projection: the read is recorded when the projection
\* has not been refreshed since the last write to the data
Read(consumer, fresh, stale) ==
    IF fresh THEN stale ELSE stale \cup {consumer}

InitMain ==
    /\ prog = "main"
    /\ pc = "parse"
    /\ status = "running"
    /\ detected = {}
    /\ o = NoOptions
    /\ display = FALSE
    /\ oclActive = FALSE
    /\ hdf_file = FALSE
    /\ impedance = "null"
    /\ maps = NoMaps
    /\ meshes = {}
    /\ mesh = [m \in 1 .. 3 |-> << >>]
    /\ xprojFresh = FALSE
    /\ yprojFresh = FALSE
    /\ staleReads = {}
    /\ i = 0
    /\ outstepnr = 0
    /\ hcount = 0
    /\ oplog = << >>
    /\ nApplied = 0
    /\ nSnap = 0
    /\ diverged = FALSE
    /\ times = << >>
    /\ sinklog = << >>
    /\ order = << >>

\* opts.parse(argc,argv) and make_display
M_Parse ==
    /\ prog = "main" /\ pc = "parse"
    /\ \E outcome \in {"ok", "help", "throw"} : \E d \in BOOLEAN :
         IF outcome = "ok"
         THEN /\ pc' = "setup_cl"
              /\ display' = d
              /\ UNCHANGED <<status, detected>>
         ELSE IF outcome = "help"
         THEN /\ Exit("EXIT_SUCCESS")
              /\ UNCHANGED <<display, detected>>
         ELSE /\ detected' = detected \cup {"parse_exception"}
              /\ Exit("EXIT_FAILURE")
              /\ UNCHANGED display
    /\ UNCHANGED <<prog, o, oclActive, hdf_file, objv, projv, loopv, fvars, lvars, newv>>

\* the OpenCL setup: list the devices, or prepare the environment and fall
\* back to the sequential version when that throws
M_SetupCL ==
    /\ prog = "main" /\ pc = "setup_cl"
    /\ \E cldevice \in {-1, 0, 1} : \E throws \in BOOLEAN :
         IF cldevice < 0
         THEN /\ Exit("EXIT_SUCCESS")
              /\ UNCHANGED <<oclActive, detected>>
         ELSE /\ oclActive' = ((cldevice > 0) /\ ~throws)
              /\ detected' = IF (cldevice > 0) /\ throws
                             THEN detected \cup {"device_unavailable"}
                             ELSE detected
              /\ pc' = "read_params"
              /\ UNCHANGED status
    /\ UNCHANGED <<prog, o, display, hdf_file, objv, projv, loopv,
                   fvars, lvars, newv>>

\* the options read into locals
M_ReadParams ==
    /\ prog = "main" /\ pc = "read_params"
    /\ \E ps \in {0, GridSize} : \E st \in {0, 1, MaxSteps} :
       \E os \in {0, 1, MaxOutstep} : \E r2 \in {0, 1, MaxHalfRotations} :
       \E rn \in {0, MaxRenormalize} : \E h \in {0, MaxHaisi} :
       \E g \in Gaps : \E t \in BOOLEAN :
         o' = [ps_size |-> ps, steps |-> Max(st, 1), outstep |-> os,
               rot2 |-> r2, renormalize |-> rn, haisi |-> h, gap |-> g,
               td |-> t]
    /\ pc' = "make_mesh1"
    /\ UNCHANGED <<prog, status, detected, display, oclActive, hdf_file,
                   objv, projv, loopv, fvars, lvars, newv>>

\* mesh1 from the options or from the start distribution file
M_MakeMesh1 ==
    /\ prog = "main" /\ pc = "make_mesh1"
    /\ \E kind \in {"none", "png", "h5", "txt", "other"} :
       \E cells \in {o.ps_size, o.ps_size + 1} :
         CASE kind = "none" ->
                /\ detected' = IF o.ps_size = 0
                               THEN detected \cup {"zero_grid_no_file"}
                               ELSE detected
                /\ meshes' = {1}
                /\ pc' = "preview"
                /\ UNCHANGED status
           [] kind \in {"png", "txt"} ->
                /\ meshes' = {1}
                /\ pc' = "preview"
                /\ UNCHANGED <<status, detected>>
           [] kind = "h5" ->
                IF o.ps_size # cells
                THEN /\ detected' = detected \cup {"h5_mismatch"}
                     /\ meshes' = {1}
                     /\ Exit("EXIT_SUCCESS")
                ELSE /\ meshes' = {1}
                     /\ pc' = "h5_sync"
                     /\ UNCHANGED <<status, detected>>
           [] kind = "other" ->
                /\ detected' = detected \cup {"unknown_format"}
                /\ Exit("EXIT_SUCCESS")
                /\ UNCHANGED meshes
    /\ UNCHANGED <<prog, cfgv, impedance, maps, mesh, projv, loopv, fvars, lvars, newv>>

\* mesh1->syncCLMem(clCopyDirection::cpu2dev) after the HDF5 start
\* distribution is read: a device call that is made whatever OCLH::active is
M_SyncStart ==
    /\ prog = "main" /\ pc = "h5_sync"
    /\ pc' = "preview"
    /\ UNCHANGED <<prog, status, detected, cfgv, objv, projv, loopv, fvars,
                   lvars, newv>>

\* std::ceil(steps*rotations/outstep)+1 is a finite number: with
\* outstep = 0 the division gives an infinity or a NaN
CsrlogFinite(outstep) == outstep # 0

\* a slip: the extra element is left out
CsrlogSize_tight(steps, rot2, outstep) ==
    (steps * rot2 + 2 * outstep - 1) \div (2 * outstep)

\* the size of csrlog: std::ceil(steps*rotations/outstep)+1, rotations =
\* rot2/2, for outstep > 0
CsrlogSize(steps, rot2, outstep) ==
    (steps * rot2 + 2 * outstep - 1) \div (2 * outstep) + 1

\* std::vector<float> csrlog(std::ceil(steps*rotations/outstep)+1,0) and the
\* preview of the start distribution; with outstep = 0 the length is the
\* conversion of an infinite or undefined float, which is undefined: the
\* allocation fails and the process dies, or the run goes on
M_Preview ==
    /\ prog = "main" /\ pc = "preview"
    /\ \E outcome \in (IF CsrlogFinite(o.outstep) THEN {"goes on"}
                       ELSE {"dies", "goes on"}) :
         IF outcome = "dies"
         THEN Exit("crashed")
         ELSE /\ pc' = "build_impedance"
              /\ UNCHANGED status
    /\ UNCHANGED <<prog, detected, cfgv, objv, projv, loopv, fvars, lvars, newv>>

\* impedance->nFreqs() < ps_size
ImpedanceInvalid(nFreqs, ps_size) == nFreqs < ps_size

\* a slip: the message is printed and the return is missing
M_BuildImpedance_goes_on ==
    /\ prog = "main" /\ pc = "build_impedance"
    /\ \E fromFile \in BOOLEAN : \E nFreqs \in 0 .. GridSize :
         detected' = IF fromFile /\ ImpedanceInvalid(nFreqs, o.ps_size)
                     THEN detected \cup {"impedance_short"} ELSE detected
    /\ pc' = "build_maps"
    /\ impedance' = "built"
    /\ order' = Append(order, "impedance")
    /\ UNCHANGED <<prog, status, cfgv, maps, meshes, mesh, projv, loopv, fvars,
                   lvars, diverged, times, sinklog>>

\* the impedance: analytic, or read from a file and checked
M_BuildImpedance ==
    /\ prog = "main" /\ pc = "build_impedance"
    /\ \E fromFile \in BOOLEAN : \E nFreqs \in 0 .. GridSize :
         IF fromFile /\ ImpedanceInvalid(nFreqs, o.ps_size)
         THEN /\ detected' = detected \cup {"impedance_short"}
              /\ Exit("EXIT_SUCCESS")
         ELSE /\ pc' = "build_maps"
              /\ UNCHANGED <<status, detected>>
    /\ impedance' = "built"
    /\ order' = Append(order, "impedance")
    /\ UNCHANGED <<prog, cfgv, maps, meshes, mesh, projv, loopv, fvars, lvars,
                   diverged, times, sinklog>>

\* switch (rotationtype): the transport maps rm1 and rm2
RotationMaps(rotationtype) ==
    CASE rotationtype = 0 ->
           [rm1 |-> Map("RotationMap", 1, 3), rm2 |-> Null]
      [] rotationtype = 1 ->
           [rm1 |-> Map("RotationMap", 2, 3), rm2 |-> Null]
      [] OTHER ->
           [rm1 |-> Map("RFKickMap", 2, 1), rm2 |-> Map("DriftMap", 1, 3)]

\* e1 > 0 ? FokkerPlanckMap : Identity
FokkerPlanckStage(td) ==
    IF td THEN Map("FokkerPlanckMap", 3, 1) ELSE Map("Identity", 3, 1)

\* a slip: the wake potential map is built for a positive gap only
WakeKick_positive_gap(wakefileLong, gap) ==
    IF wakefileLong THEN Map("WakeFunctionMap", 1, 2)
    ELSE IF gap > 0 THEN Map("WakePotentialMap", 1, 2)
    ELSE Null

\* wkm: the wake function map, the wake potential map, or nullptr
WakeKick(wakefileLong, gap) ==
    IF wakefileLong THEN Map("WakeFunctionMap", 1, 2)
    ELSE IF gap # 0 THEN Map("WakePotentialMap", 1, 2)
    ELSE Null

\* wm: wkm, or an Identity map when there is no wake kick
WakeStage(wkm) == IF wkm # Null THEN wkm ELSE Map("Identity", 1, 2)

\* the objects in the order the specification lists them
BuildOrder_field_first ==
    << "field", "wake", "rotation", "fokker_planck", "mesh2", "mesh3" >>

\* the objects behind the impedance, in the order of their construction
BuildOrder ==
    << "mesh2", "mesh3", "rotation", "fokker_planck", "field", "wake" >>

\* mesh2, mesh3 and the maps
M_BuildMaps ==
    /\ prog = "main" /\ pc = "build_maps"
    /\ \E rotationtype \in 0 .. MaxRotationType : \E wakefileLong \in BOOLEAN :
         LET rm  == RotationMaps(rotationtype)
             wkm == WakeKick(wakefileLong, o.gap)
         IN maps' = [wm |-> WakeStage(wkm), wkm |-> wkm, rm1 |-> rm.rm1,
                     rm2 |-> rm.rm2, fpm |-> FokkerPlanckStage(o.td)]
    /\ meshes' = {1, 2, 3}
    /\ mesh' = [m \in 1 .. 3 |-> mesh[1]]
    /\ order' = order \o BuildOrder
    /\ pc' = "haissinski"
    /\ UNCHANGED <<prog, status, detected, cfgv, impedance, projv, loopv,
                   fvars, lvars, diverged, times, sinklog>>

\* one pass of the Haissinski loop; wkm and display are used unchecked, and
\* the use of a null handle is undefined: the process dies or goes on
M_Haissinski ==
    /\ prog = "main" /\ pc = "haissinski"
    /\ hcount < o.haisi
    /\ \E outcome \in (IF maps.wkm = Null \/ ~display
                       THEN {"dies", "goes on"} ELSE {"goes on"}) :
         IF outcome = "dies"
         THEN /\ Exit("crashed")
              /\ UNCHANGED <<mesh, projv, hcount>>
         ELSE /\ staleReads' = Read("haissinski.update", xprojFresh, staleReads)
              /\ mesh' = [mesh EXCEPT ![1] = Append(@, <<"haissinski", hcount>>)]
              /\ xprojFresh' = FALSE
              /\ yprojFresh' = FALSE
              /\ hcount' = hcount + 1
              /\ UNCHANGED <<pc, status>>
    /\ UNCHANGED <<prog, detected, cfgv, impedance, maps, meshes, i, outstepnr,
                   oplog, nApplied, nSnap, fvars, lvars, newv>>

\* the end of the Haissinski loop and the preparation of the output file
M_PrepareOutput ==
    /\ prog = "main" /\ pc = "haissinski"
    /\ hcount >= o.haisi
    /\ \E h5 \in BOOLEAN : hdf_file' = h5
    /\ pc' = "pre_loop"
    /\ UNCHANGED <<prog, status, detected, o, display, oclActive, objv, projv,
                   loopv, fvars, lvars, newv>>

\* before the loop: the integral and the energy spread of the first step
M_PreLoop ==
    /\ prog = "main" /\ pc = "pre_loop"
    /\ xprojFresh' = TRUE
    /\ yprojFresh' = TRUE
    /\ staleReads' = Read("pre.variance1", TRUE,
                          Read("pre.integral", TRUE, staleReads))
    /\ pc' = "loop_head"
    /\ UNCHANGED <<prog, status, detected, cfgv, objv, loopv, fvars, lvars, newv>>

\* a slip: the transport map is applied before the wake kick map
LoopOrder_swapped ==
    << "wake_update", "renormalize", "output", "rm1_apply", "wm_apply",
       "rm2_apply", "fpm_apply", "update_x" >>

\* the statements of the body of the main simulation loop, in program order
LoopOrder ==
    << "wake_update", "renormalize", "output", "wm_apply", "rm1_apply",
       "rm2_apply", "fpm_apply", "update_x" >>

\* the statement after statement p of the loop body
After(p) ==
    LET n == CHOOSE k \in 1 .. Len(LoopOrder) : LoopOrder[k] = p
    IN IF n = Len(LoopOrder) THEN "loop_head" ELSE LoopOrder[n + 1]

\* for (unsigned int i=0, outstepnr=0; i<steps*rotations; i++)
\* (rotations = rot2/2)
M_LoopHead ==
    /\ prog = "main" /\ pc = "loop_head"
    /\ IF 2 * i < o.steps * o.rot2
       THEN /\ pc' = LoopOrder[1]
            /\ oplog' = << >>
       ELSE /\ pc' = "final_save"
            /\ UNCHANGED oplog
    /\ UNCHANGED <<prog, status, detected, cfgv, objv, projv, i, outstepnr,
                   hcount, nApplied, nSnap, fvars, lvars, newv>>

\* if (wkm != nullptr) wkm->update();
M_WakeUpdate ==
    /\ prog = "main" /\ pc = "wake_update"
    /\ IF maps.wkm # Null
       THEN /\ staleReads' = Read("wkm.update", xprojFresh, staleReads)
            /\ oplog' = Append(oplog, "wkm.update")
       ELSE UNCHANGED <<staleReads, oplog>>
    /\ pc' = After("wake_update")
    /\ UNCHANGED <<prog, status, detected, cfgv, objv, xprojFresh, yprojFresh,
                   i, outstepnr, hcount, nApplied, nSnap, fvars, lvars, newv>>

\* a slip: the step index is not looked at
Renormalizes_always(renormalize, step) == renormalize > 0

\* renormalize > 0 && i%renormalize == 0
Renormalizes(renormalize, step) ==
    renormalize > 0 /\ step % renormalize = 0

\* mesh1->normalize() or mesh1->integral(); both work on the x-projection,
\* normalize() then divides the data.  The value of the integral depends on
\* the data: it is finite or not, and the code does not look at it
M_Renormalize ==
    /\ prog = "main" /\ pc = "renormalize"
    /\ \E finite \in (IF diverged THEN {FALSE} ELSE BOOLEAN) :
         diverged' = ~finite
    /\ IF Renormalizes(o.renormalize, i)
       THEN /\ staleReads' = Read("normalize", xprojFresh, staleReads)
            /\ xprojFresh' = FALSE
            /\ yprojFresh' = FALSE
            /\ oplog' = Append(oplog, "mesh1.normalize")
       ELSE /\ staleReads' = Read("integral", xprojFresh, staleReads)
            /\ oplog' = Append(oplog, "mesh1.integral")
            /\ UNCHANGED <<xprojFresh, yprojFresh>>
    /\ pc' = After("renormalize")
    /\ UNCHANGED <<prog, status, detected, cfgv, objv, i, outstepnr, hcount,
                   nApplied, nSnap, fvars, lvars, order, times, sinklog>>

\* a slip: the step index is not looked at
OutputStep_every(outstep, step) == outstep > 0

\* outstep > 0 && i%outstep == 0
OutputStep(outstep, step) == outstep > 0 /\ step % outstep = 0

\* the moments collected before a snapshot
Moments == << "mesh1.variance0", "mesh1.updateYProjection", "mesh1.variance1" >>

\* if (OCLH::active) { mesh1->syncCLMem(dev2cpu);
\*                      if (wkm != nullptr) wkm->syncCLMem(dev2cpu); }
SyncToHost ==
    IF oclActive
    THEN << "mesh1.syncCLMem" >>
         \o (IF maps.wkm # Null THEN << "wkm.syncCLMem" >> ELSE << >>)
    ELSE << >>

\* the appends to the HDF5 file
HDF5Appends ==
    << "hdf.appendTime", "hdf.append.mesh1", "field.updateCSR",
       "hdf.append.field" >>
    \o (IF maps.wkm # Null THEN << "hdf.append.wkm" >> ELSE << >>)
    \o << "hdf.append.trackme" >>

\* the plots of the display: phase space, bunch profile, wake, history
GUIUpdates ==
    << "gui.psv.mesh1", "gui.bpv.mesh1" >>
    \o (IF maps.wkm # Null THEN << "gui.wpv.wkm" >> ELSE << >>)
    \o << "gui.history", "gui.draw" >>

\* the snapshot block with the sinks served before the synchronisation
OutputOps_sinks_first ==
    Moments
    \o (IF hdf_file THEN HDF5Appends ELSE << >>)
    \o (IF display THEN GUIUpdates ELSE << >>)
    \o SyncToHost

\* the statements of the snapshot block behind outstepnr++
OutputOps ==
    Moments \o SyncToHost
    \o (IF hdf_file THEN HDF5Appends ELSE << >>)
    \o (IF display THEN GUIUpdates ELSE << >>)

\* the statements of the final save
FinalOps ==
    (IF maps.wkm # Null THEN << "final.wkm.update" >> ELSE << >>)
    \o << IF o.renormalize > 0 THEN "final.normalize" ELSE "final.integral" >>
    \o Moments \o SyncToHost \o HDF5Appends

RLess(a, b) == a.n * b.d < b.n * a.d

\* a slip: the step is stamped with the time at its end
SnapshotTime_at_end(step, steps) == R(step + 1, steps)

\* hdf_file->appendTime(static_cast<double>(i)/static_cast<double>(steps))
SnapshotTime(step, steps) == R(step, steps)

\* hdf_file->appendTime(rotations), rotations = rot2/2
FinalTime(rot2) == R(rot2, 2)

\* the snapshot block: the moments, the synchronisation, the sinks
M_Output ==
    /\ prog = "main" /\ pc = "output"
    /\ IF OutputStep(o.outstep, i)
       THEN /\ outstepnr' = outstepnr + 1
            /\ staleReads' = Read("variance1", TRUE,
                                  Read("variance0", xprojFresh, staleReads))
            /\ yprojFresh' = TRUE
            /\ nSnap' = nSnap + 1
            /\ oplog' = Append(oplog, "snapshot")
            /\ sinklog' = << "snapshot" >> \o OutputOps
            /\ times' = IF hdf_file
                        THEN Append(times, SnapshotTime(i, o.steps))
                        ELSE times
       ELSE UNCHANGED <<outstepnr, staleReads, yprojFresh, nSnap, oplog,
                        times, sinklog>>
    /\ pc' = After("output")
    /\ UNCHANGED <<prog, status, detected, cfgv, objv, xprojFresh, i, hcount,
                   nApplied, fvars, lvars, diverged, order>>

\* a slip: the tracked particles are not passed through the map
ApplyMap_mesh_only(h, m) ==
    /\ mesh' = [mesh EXCEPT ![m.out] = Append(mesh[m.in], <<h, i>>)]
    /\ xprojFresh' = IF m.out = 1 THEN FALSE ELSE xprojFresh
    /\ yprojFresh' = IF m.out = 1 THEN FALSE ELSE yprojFresh
    /\ oplog' = Append(oplog, h \o ".apply")
    /\ nApplied' = nApplied + 1

\* m->apply(); m->applyTo(trackme); for the map m held by handle h
ApplyMap(h, m) ==
    /\ mesh' = [mesh EXCEPT ![m.out] = Append(mesh[m.in], <<h, i>>)]
    /\ xprojFresh' = IF m.out = 1 THEN FALSE ELSE xprojFresh
    /\ yprojFresh' = IF m.out = 1 THEN FALSE ELSE yprojFresh
    /\ oplog' = oplog \o << h \o ".apply", h \o ".applyTo" >>
    /\ nApplied' = nApplied + 1

M_WmApply ==
    /\ prog = "main" /\ pc = "wm_apply"
    /\ ApplyMap("wm", maps.wm)
    /\ pc' = After("wm_apply")
    /\ UNCHANGED <<prog, status, detected, cfgv, impedance, maps, meshes,
                   staleReads, i, outstepnr, hcount, nSnap, fvars, lvars, newv>>

M_Rm1Apply ==
    /\ prog = "main" /\ pc = "rm1_apply"
    /\ ApplyMap("rm1", maps.rm1)
    /\ pc' = After("rm1_apply")
    /\ UNCHANGED <<prog, status, detected, cfgv, impedance, maps, meshes,
                   staleReads, i, outstepnr, hcount, nSnap, fvars, lvars, newv>>

\* if (rm2 != nullptr) { rm2->apply(); rm2->applyTo(trackme); }
M_Rm2Apply ==
    /\ prog = "main" /\ pc = "rm2_apply"
    /\ IF maps.rm2 # Null
       THEN ApplyMap("rm2", maps.rm2)
       ELSE UNCHANGED <<mesh, xprojFresh, yprojFresh, oplog, nApplied>>
    /\ pc' = After("rm2_apply")
    /\ UNCHANGED <<prog, status, detected, cfgv, impedance, maps, meshes,
                   staleReads, i, outstepnr, hcount, nSnap, fvars, lvars, newv>>

M_FpmApply ==
    /\ prog = "main" /\ pc = "fpm_apply"
    /\ ApplyMap("fpm", maps.fpm)
    /\ pc' = After("fpm_apply")
    /\ UNCHANGED <<prog, status, detected, cfgv, impedance, maps, meshes,
                   staleReads, i, outstepnr, hcount, nSnap, fvars, lvars, newv>>

\* a slip: the x-projection is not rebuilt at the end of the step
M_UpdateX_forgotten ==
    /\ prog = "main" /\ pc = "update_x"
    /\ oplog' = Append(oplog, "mesh1.updateXProjection")
    /\ i' = i + 1
    /\ pc' = After("update_x")
    /\ UNCHANGED <<prog, status, detected, cfgv, objv, projv, outstepnr,
                   hcount, nApplied, nSnap, fvars, lvars, newv>>

\* mesh1->updateXProjection(); and the i++ of the loop
M_UpdateX ==
    /\ prog = "main" /\ pc = "update_x"
    /\ xprojFresh' = TRUE
    /\ oplog' = Append(oplog, "mesh1.updateXProjection")
    /\ i' = i + 1
    /\ pc' = After("update_x")
    /\ UNCHANGED <<prog, status, detected, cfgv, objv, yprojFresh, staleReads,
                   outstepnr, hcount, nApplied, nSnap, fvars, lvars, newv>>

\* save final result
M_FinalSave ==
    /\ prog = "main" /\ pc = "final_save"
    /\ IF hdf_file
       THEN LET s1 == IF maps.wkm # Null
                      THEN Read("final.update", xprojFresh, staleReads)
                      ELSE staleReads
                s2 == IF o.renormalize > 0
                      THEN Read("final.normalize", xprojFresh, s1)
                      ELSE Read("final.integral", xprojFresh, s1)
                x2 == IF o.renormalize > 0 THEN FALSE ELSE xprojFresh
            IN /\ staleReads' = Read("final.variance1", TRUE,
                                     Read("final.variance0", x2, s2))
               /\ xprojFresh' = x2
               /\ yprojFresh' = TRUE
               /\ nSnap' = nSnap + 1
               /\ sinklog' = Append(sinklog, "final_save") \o FinalOps
               /\ times' = Append(times, FinalTime(o.rot2))
       ELSE /\ sinklog' = Append(sinklog, "final_save")
            /\ UNCHANGED <<projv, nSnap, times>>
    /\ pc' = "finish"
    /\ UNCHANGED <<prog, status, detected, cfgv, objv, i, outstepnr, hcount,
                   oplog, nApplied, fvars, lvars, diverged, order>>

\* the end of main(): the PNG file when the output file is of that type
\* (then there is no HDF5 file), the flush, return EXIT_SUCCESS
M_Finish ==
    /\ prog = "main" /\ pc = "finish"
    /\ \E png \in (IF hdf_file THEN {FALSE} ELSE BOOLEAN) :
         sinklog' = IF png THEN Append(sinklog, "png.write.mesh1")
                    ELSE sinklog
    /\ Exit("EXIT_SUCCESS")
    /\ UNCHANGED <<prog, detected, cfgv, objv, projv, loopv, fvars, lvars,
                   diverged, order, times>>

NextMain ==
    \/ M_Parse \/ M_SetupCL \/ M_ReadParams \/ M_MakeMesh1 \/ M_SyncStart \/ M_Preview
    \/ M_BuildImpedance \/ M_BuildMaps \/ M_Haissinski \/ M_PrepareOutput
    \/ M_PreLoop \/ M_LoopHead \/ M_WakeUpdate \/ M_Renormalize \/ M_Output
    \/ M_WmApply \/ M_Rm1Apply \/ M_Rm2Apply \/ M_FpmApply \/ M_UpdateX
    \/ M_FinalSave \/ M_Finish

(***************************************************************************)
(* The older orchestrator: main() of src/unnamed/part_000.                 *)
(***************************************************************************)
InitLegacy ==
    /\ prog = "legacy"
    /\ pc = "L_parse"
    /\ status = "running"
    /\ detected = {}
    /\ o = NoOptions
    /\ display = FALSE
    /\ oclActive = FALSE
    /\ hdf_file = FALSE
    /\ impedance = "null"
    /\ maps = NoMaps
    /\ meshes = {}
    /\ mesh = [m \in 1 .. 3 |-> << >>]
    /\ xprojFresh = FALSE
    /\ yprojFresh = FALSE
    /\ staleReads = {}
    /\ i = 0
    /\ outstepnr = 0
    /\ hcount = 0
    /\ oplog = << >>
    /\ nApplied = 0
    /\ nSnap = 0
    /\ diverged = FALSE
    /\ times = << >>
    /\ sinklog = << >>
    /\ order = << >>

L_Parse ==
    /\ prog = "legacy" /\ pc = "L_parse"
    /\ \E outcome \in {"ok", "help", "throw"} :
         IF outcome = "ok"
         THEN /\ pc' = "L_setup_cl"
              /\ UNCHANGED <<status, detected>>
         ELSE IF outcome = "help"
         THEN /\ Exit("EXIT_SUCCESS")
              /\ UNCHANGED detected
         ELSE /\ detected' = detected \cup {"parse_exception"}
              /\ Exit("EXIT_FAILURE")
    /\ UNCHANGED <<prog, cfgv, objv, projv, loopv, fvars, lvars, newv>>

\* prepareCLEnvironment, listCLDevices, prepareCLDevice and prepareCLProgs
L_SetupCL ==
    /\ prog = "legacy" /\ pc = "L_setup_cl"
    /\ \E cldevice \in {-1, 0, 1} : \E envThrows, devThrows \in BOOLEAN :
         LET active1 == (cldevice >= 0) /\ ~envThrows
         IN IF active1 /\ cldevice = 0
            THEN /\ Exit("EXIT_SUCCESS")
                 /\ oclActive' = active1
                 /\ UNCHANGED detected
            ELSE /\ oclActive' = (active1 /\ ~devThrows)
                 /\ detected' = IF (cldevice >= 0) /\ (envThrows \/ devThrows)
                                THEN detected \cup {"device_unavailable"}
                                ELSE detected
                 /\ pc' = "L_load"
                 /\ UNCHANGED status
    /\ UNCHANGED <<prog, o, display, hdf_file, objv, projv, loopv,
                   fvars, lvars, newv>>

\* image.get_width() == image.get_height()
Quadratic(width, height) == width = height

\* the start distribution: a PNG image or a .dat file
L_LoadStart ==
    /\ prog = "legacy" /\ pc = "L_load"
    /\ \E kind \in {"short", "png", "dat", "other"} :
       \E readable \in BOOLEAN : \E width, height \in {GridSize, GridSize + 1} :
         CASE kind = "short" ->
                /\ detected' = detected \cup {"no_file_ending"}
                /\ Exit("EXIT_SUCCESS")
                /\ UNCHANGED meshes
           [] kind = "png" /\ ~readable ->
                /\ detected' = detected \cup {"png_unreadable"}
                /\ Exit("EXIT_SUCCESS")
                /\ UNCHANGED meshes
           [] kind = "png" /\ readable ->
                IF Quadratic(width, height)
                THEN /\ meshes' = {1}
                     /\ pc' = "L_build"
                     /\ UNCHANGED <<status, detected>>
                ELSE /\ detected' = detected \cup {"nonsquare_png"}
                     /\ Exit("EXIT_SUCCESS")
                     /\ UNCHANGED meshes
           [] kind = "dat" ->
                /\ meshes' = {1}
                /\ pc' = "L_build"
                /\ UNCHANGED <<status, detected>>
           [] kind = "other" ->
                /\ detected' = detected \cup {"unknown_format"}
                /\ Exit("EXIT_SUCCESS")
                /\ UNCHANGED meshes
    /\ UNCHANGED <<prog, cfgv, impedance, maps, mesh, projv, loopv, fvars, lvars, newv>>

\* the output file, mesh_rotated, the display, the options and the two maps
L_Build ==
    /\ prog = "legacy" /\ pc = "L_build"
    /\ \E st \in {0, 1, MaxSteps} : \E os \in {0, 1, MaxOutstep} :
       \E r2 \in {0, 1, MaxHalfRotations} : \E d \in BOOLEAN :
         /\ o' = [o EXCEPT !.steps = st, !.outstep = os, !.rot2 = r2]
         /\ display' = d
    /\ meshes' = {1, 2}
    /\ mesh' = [mesh EXCEPT ![2] = mesh[1]]
    /\ maps' = [NoMaps EXCEPT !.fpm = Map("FokkerPlanckMap", 2, 1),
                              !.rm1 = Map("RotationMap", 1, 2)]
    /\ hdf_file' = TRUE
    /\ pc' = "L_loop"
    /\ UNCHANGED <<prog, status, detected, oclActive, impedance, projv, loopv,
                   fvars, lvars, newv>>

\* for (unsigned int i=0;i<=steps*rotations;i++)
L_LoopHead ==
    /\ prog = "legacy" /\ pc = "L_loop"
    /\ pc' = IF 2 * i <= o.steps * o.rot2 THEN "L_output" ELSE "L_finish"
    /\ UNCHANGED <<prog, status, detected, cfgv, objv, projv, loopv, fvars, lvars, newv>>

\* if (i%outstep == 0): with outstep 0 the modulo is undefined, the process
\* dies or the test goes either way
L_Output ==
    /\ prog = "legacy" /\ pc = "L_output"
    /\ \E outcome \in (IF o.outstep = 0 THEN {"dies", "taken", "skipped"}
                       ELSE IF i % o.outstep = 0 THEN {"taken"}
                       ELSE {"skipped"}) :
         CASE outcome = "dies" ->
                /\ Exit("crashed")
                /\ UNCHANGED nSnap
           [] outcome = "taken" ->
                /\ nSnap' = nSnap + 1
                /\ pc' = "L_apply"
                /\ UNCHANGED status
           [] outcome = "skipped" ->
                /\ pc' = "L_apply"
                /\ UNCHANGED <<status, nSnap>>
    /\ UNCHANGED <<prog, detected, cfgv, objv, projv, i, outstepnr, hcount,
                   oplog, nApplied, fvars, lvars, newv>>

\* rm.apply(); fpm.apply(); and the i++ of the loop
L_Apply ==
    /\ prog = "legacy" /\ pc = "L_apply"
    /\ mesh' = LET m2 == Append(mesh[maps.rm1.in], <<"rm", i>>)
               IN [mesh EXCEPT ![maps.rm1.out] = m2,
                               ![maps.fpm.out] = Append(m2, <<"fpm", i>>)]
    /\ nApplied' = nApplied + 2
    /\ i' = i + 1
    /\ pc' = "L_loop"
    /\ UNCHANGED <<prog, status, detected, cfgv, impedance, maps, meshes,
                   projv, outstepnr, hcount, oplog, nSnap, fvars, lvars, newv>>

L_Finish ==
    /\ prog = "legacy" /\ pc = "L_finish"
    /\ Exit("EXIT_SUCCESS")
    /\ UNCHANGED <<prog, detected, cfgv, objv, projv, loopv, fvars, lvars, newv>>

NextLegacy ==
    \/ L_Parse \/ L_SetupCL \/ L_LoadStart \/ L_Build \/ L_LoopHead
    \/ L_Output \/ L_Apply \/ L_Finish

(***************************************************************************)
(* The header of the main simulation loop alone (main.cpp:189-191, 648):   *)
(*   for (unsigned int i=0, outstepnr=0; i<steps*rotations; i++)           *)
(* with the width of the counter.  TLC's integers cannot hold 2^32, so the *)
(* largest value of the unsigned counter is scaled down to UIntMax; the    *)
(* product steps*rotations is a float and is not bounded by the counter.   *)
(***************************************************************************)
UIntMax == 7
MaxLoopSteps == 3
MaxLoopHalfRotations == 6

LoopIdle ==
    lp = [steps |-> 1, rot2 |-> 0, i |-> 0, n |-> 0, pc |-> "idle",
          wrapped |-> FALSE]

\* steps = std::max(opts.getSteps(),1u); rotations = opts.getNRotations()
InitLoopHeader ==
    lp \in [ steps : { Max(st, 1) : st \in 0 .. MaxLoopSteps },
             rot2 : 0 .. MaxLoopHalfRotations,
             i : {0}, n : {0}, pc : {"test"}, wrapped : {FALSE} ]

\* i<steps*rotations (rotations = rot2/2)
LoopCondition(counter, steps, rot2) == 2 * counter < steps * rot2

\* i++ on an unsigned int
UIntInc(v) == (v + 1) % (UIntMax + 1)

H_Test ==
    /\ lp.pc = "test"
    /\ lp' = [lp EXCEPT !.pc = IF LoopCondition(lp.i, lp.steps, lp.rot2)
                               THEN "body" ELSE "done"]
    /\ UNCHANGED <<ovars, fvars, im>>

\* one pass of the body; n counts the passes and stops counting above the
\* range of the counter
H_Body ==
    /\ lp.pc = "body"
    /\ lp' = [lp EXCEPT !.n = IF @ <= UIntMax THEN @ + 1 ELSE @,
                        !.pc = "incr"]
    /\ UNCHANGED <<ovars, fvars, im>>

H_Incr ==
    /\ lp.pc = "incr"
    /\ lp' = [lp EXCEPT !.i = UIntInc(@),
                        !.wrapped = @ \/ (lp.i = UIntMax),
                        !.pc = "test"]
    /\ UNCHANGED <<ovars, fvars, im>>

NextLoop == H_Test \/ H_Body \/ H_Incr

(***************************************************************************)
(* The impedance in main(): built and composed (351-394), handed to the    *)
(* ElectricField (446-467) and to the HDF5 file (587), used through the    *)
(* field in the loop, deleted at the end (800-801).                        *)
(***************************************************************************)
NoImpedance == {}

ImpIdle ==
    im = [file |-> FALSE, nFreqs |-> 0, ps_size |-> 0, gap |-> 0,
          cond |-> 0, susc |-> 0, coll |-> 0, pc |-> "idle",
          value |-> NoImpedance, field |-> FALSE, atField |-> NoImpedance,
          n |-> 0]

\* the options the construction of the impedance reads
InitImpedance ==
    im \in [ file : BOOLEAN, nFreqs : {0, GridSize}, ps_size : {0, GridSize},
             gap : {-1, 0, 1}, cond : {0, 1}, susc : {-2, -1}, coll : {0, 1},
             pc : {"impedance"}, value : {NoImpedance}, field : {FALSE},
             atField : {NoImpedance}, n : {0} ]

\* the impedance built without an impedance file: parallel plates with the
\* resistive wall and the collimator added in place, or free space
AnalyticImpedance(gap, cond, susc, coll) ==
    IF gap > 0
    THEN {"ParallelPlatesCSR"}
         \cup (IF cond > 0 /\ susc >= -1 THEN {"ResistiveWall"} ELSE {})
         \cup (IF coll > 0 THEN {"CollimatorImpedance"} ELSE {})
    ELSE {"FreeSpaceCSR"}

\* Impedance* impedance: the analytic one, or the one read from a file,
\* which ends the run when it is too short
I_Build ==
    /\ im.pc = "impedance"
    /\ im' = [im EXCEPT
                !.value = IF im.file THEN {"Impedance(file)"}
                          ELSE AnalyticImpedance(im.gap, im.cond, im.susc,
                                                 im.coll),
                !.pc = IF im.file /\ ImpedanceInvalid(im.nFreqs, im.ps_size)
                       THEN "exit" ELSE "field"]
    /\ UNCHANGED <<ovars, fvars, lp>>

\* a slip: the resistive wall is added once the field holds the impedance
I_BuildField_adds_wall ==
    /\ im.pc = "field"
    /\ im' = [im EXCEPT !.field = TRUE, !.atField = im.value,
                        !.value = @ \cup {"ResistiveWall"},
                        !.pc = "hdf5"]
    /\ UNCHANGED <<ovars, fvars, lp>>

\* field = new ElectricField(mesh1,impedance,...), in either branch
I_BuildField ==
    /\ im.pc = "field"
    /\ im' = [im EXCEPT !.field = TRUE, !.atField = im.value, !.pc = "hdf5"]
    /\ UNCHANGED <<ovars, fvars, lp>>

\* hdf_file = new HDF5File(ofname,mesh1,field,impedance,...), when the
\* output file is of that type: the impedance is handed over to be read
I_OpenHDF5 ==
    /\ im.pc = "hdf5"
    /\ im' = [im EXCEPT !.pc = "loop"]
    /\ UNCHANGED <<ovars, fvars, lp>>

\* one loop step: wkm->update() and field->updateCSR() use the impedance
\* through the field
I_Step ==
    /\ im.pc = "loop"
    /\ im.n < MaxSteps
    /\ im' = [im EXCEPT !.n = @ + 1]
    /\ UNCHANGED <<ovars, fvars, lp>>

\* delete field; delete impedance;
I_Delete ==
    /\ im.pc = "loop"
    /\ im' = [im EXCEPT !.field = FALSE, !.pc = "deleted"]
    /\ UNCHANGED <<ovars, fvars, lp>>

NextImp == I_Build \/ I_BuildField \/ I_OpenHDF5 \/ I_Step \/ I_Delete

(***************************************************************************)
(* The specification of the orchestrators.                                 *)
(***************************************************************************)
Init == (InitMain \/ InitLegacy) /\ FPIdle /\ LoopIdle /\ ImpIdle

Next == NextMain \/ NextLegacy

Spec == Init /\ [][Next]_vars

(***************************************************************************)
(* The specification of the Fokker-Planck constructor.                     *)
(***************************************************************************)
OrchestratorIdle ==
    /\ prog = "none"
    /\ pc = "idle"
    /\ status = "running"
    /\ detected = {}
    /\ o = NoOptions
    /\ display = FALSE
    /\ oclActive = FALSE
    /\ hdf_file = FALSE
    /\ impedance = "null"
    /\ maps = NoMaps
    /\ meshes = {}
    /\ mesh = [m \in 1 .. 3 |-> << >>]
    /\ xprojFresh = FALSE
    /\ yprojFresh = FALSE
    /\ staleReads = {}
    /\ i = 0
    /\ outstepnr = 0
    /\ hcount = 0
    /\ oplog = << >>
    /\ nApplied = 0
    /\ nSnap = 0
    /\ diverged = FALSE
    /\ times = << >>
    /\ sinklog = << >>
    /\ order = << >>

InitFP == InitFPMap /\ OrchestratorIdle /\ LoopIdle /\ ImpIdle

SpecFP == InitFP /\ [][NextFP]_vars

InitLoop == InitLoopHeader /\ OrchestratorIdle /\ FPIdle /\ ImpIdle

SpecLoop == InitLoop /\ [][NextLoop]_vars

InitImp == InitImpedance /\ OrchestratorIdle /\ FPIdle /\ LoopIdle

SpecImp == InitImp /\ [][NextImp]_vars

(***************************************************************************)
(* Claims about the Fokker-Planck stencil (SpecFP).                        *)
(***************************************************************************)
Built == fp_pc \in {"built", "applied"}

Columns == 0 .. (xsizeOf(fp) - 1)
Rows    == 0 .. (ysizeOf(fp) - 1)
InteriorRows == { j \in Rows : 0 < j /\ j < ysizeOf(fp) - 1 }
BoundaryRows == { j \in Rows : j = 0 \/ j = ysizeOf(fp) - 1 }

Entry(ix, j, k) == heritage_map[(ix * ysizeOf(fp) + j) * 3 + k]

RowSum(ix, j) ==
    RAdd(RAdd(Entry(ix, j, 0).weight, Entry(ix, j, 1).weight),
         Entry(ix, j, 2).weight)

\* C4 as stated: in every finished stencil the three weights of every output
\* cell sum to 1.
C4_WeightsSumToOne ==
    Built => \A ix \in Columns : \A j \in Rows : RowSum(ix, j) = One

\* C4 amended: the three weights of an output cell sum to 1 on the interior
\* rows of the variants none and diffusion-only, to 1 + e0 on the interior
\* rows of damping-only and full, and to 0 on the rows j = 0 and j = N-1.
C4_WeightSums ==
    Built =>
      \A ix \in Columns :
        /\ \A j \in BoundaryRows : RowSum(ix, j) = Zero
        /\ \A j \in InteriorRows :
             RowSum(ix, j) = IF fp.fpt \in {"none", "diffusion_only"}
                            THEN One
                            ELSE RAdd(One, fp.e0)

C4_Witness ==
    /\ fp_pc = "built"
    /\ fp.fpt = "full"
    /\ fp.e0 # Zero
    /\ xsizeOf(fp) >= 2
    /\ ysizeOf(fp) >= 4

\* the p coordinate of row j, and the coefficients, from the arguments alone
Pj(j)    == RAdd(fp.pmin, RMul(RInt(j), fp.delta))
EOver2D  == RDiv(fp.e0, RMul(Two, fp.delta))
EOverD2  == RDiv(fp.e0, RMul(fp.delta, fp.delta))
EOver2D2 == RDiv(fp.e0, RMul(Two, RMul(fp.delta, fp.delta)))

SourceCells(ix, j) ==
    /\ Entry(ix, j, 0).index = ix * ysizeOf(fp) + j - 1
    /\ Entry(ix, j, 1).index = ix * ysizeOf(fp) + j
    /\ Entry(ix, j, 2).index = ix * ysizeOf(fp) + j + 1

\* C5 as stated: on every interior row of the full stencil the weights of
\* (i,j-1), (i,j), (i,j+1) are e/(2 dp^2) + e/(2 dp) p_j, 1 + e - e/dp^2 and
\* e/(2 dp^2) - e/(2 dp) p_j.
C5_FullWeightsAsStated ==
    (Built /\ fp.fpt = "full") =>
      \A ix \in Columns : \A j \in InteriorRows :
        /\ SourceCells(ix, j)
        /\ Entry(ix, j, 0).weight = RAdd(EOver2D2, RMul(EOver2D, Pj(j)))
        /\ Entry(ix, j, 1).weight = RSub(RAdd(One, fp.e0), EOverD2)
        /\ Entry(ix, j, 2).weight = RSub(EOver2D2, RMul(EOver2D, Pj(j)))

\* C5 amended: on every interior row of the full stencil the weights of
\* (i,j-1), (i,j), (i,j+1) are e/dp^2 + e/(2 dp) p_j, 1 + e - 2 e/dp^2 and
\* e/dp^2 - e/(2 dp) p_j.
C5_FullWeights ==
    (Built /\ fp.fpt = "full") =>
      \A ix \in Columns : \A j \in InteriorRows :
        /\ SourceCells(ix, j)
        /\ Entry(ix, j, 0).weight = RAdd(EOverD2, RMul(EOver2D, Pj(j)))
        /\ Entry(ix, j, 1).weight =
               RSub(RAdd(One, fp.e0), RMul(Two, EOverD2))
        /\ Entry(ix, j, 2).weight = RSub(EOverD2, RMul(EOver2D, Pj(j)))

C5_Witness ==
    /\ fp_pc = "built"
    /\ fp.fpt = "full"
    /\ fp.e0 # Zero
    /\ xsizeOf(fp) >= 1
    /\ \E j \in InteriorRows : Pj(j) # Zero

\* C6: in every column of every variant all entries of the rows j = 0 and
\* j = N-1 have weight 0, and apply() writes 0 to every cell of these rows
\* whatever the input mesh holds.
C6_BoundaryRowsZero ==
    /\ Built =>
         \A ix \in Columns : \A j \in BoundaryRows : \A k \in 0 .. 2 :
            Entry(ix, j, k).weight = Zero
    /\ fp_pc = "applied" =>
         \A ix \in Columns : \A j \in BoundaryRows :
            mesh_out[ix * ysizeOf(fp) + j] = Zero

C6_Witness ==
    /\ fp_pc = "applied"
    /\ xsizeOf(fp) >= 2
    /\ ysizeOf(fp) >= 3
    /\ fp.fpt = "full"
    /\ \A c \in Cells(fp) : mesh_in[c] # 0
    /\ \E c \in Cells(fp) : mesh_out[c] # Zero

\* C7: for every grid size (ysize 0, 1 and 2 included) every stored source
\* index lies in [0, xsize*ysize), every written slot lies inside the
\* allocated xsize*ysize*3 array, and every entry that names no real
\* neighbour is the sentinel (index 0, weight 0).
C7_StencilWithinBounds ==
    /\ oob = {}
    /\ Built =>
         /\ \A s \in Allocated(fp) : heritage_map[s].index \in Cells(fp)
         /\ \A ix \in Columns : \A j \in BoundaryRows : \A k \in 0 .. 2 :
               Entry(ix, j, k) = [index |-> 0, weight |-> Zero]
         /\ fp.fpt = "none" =>
               \A ix \in Columns : \A j \in InteriorRows : \A k \in 1 .. 2 :
                  Entry(ix, j, k) = [index |-> 0, weight |-> Zero]

(***************************************************************************)
(* Claims about the orchestrators (Spec).                                  *)
(***************************************************************************)
Range(f) == { f[n] : n \in DOMAIN f }

IsPrefix(a, b) == Len(a) <= Len(b) /\ a = SubSeq(b, 1, Len(a))

MapsBuilt == prog = "main" /\ maps.wm # Null

\* C1: for every rotation variant the maps form one chain over the three
\* meshes: the wake map reads mesh1 and writes mesh2, every further map reads
\* the mesh written by the map applied before it, the Fokker-Planck (or
\* Identity) stage reads mesh3 and writes mesh1; so the result of the wake
\* kick of step i is in mesh1 at the end of step i.
C1_MapsFormOneChain ==
    MapsBuilt =>
      /\ maps.wm.in = 1 /\ maps.wm.out = 2
      /\ maps.rm1.in = maps.wm.out
      /\ maps.rm2 # Null => maps.rm2.in = maps.rm1.out
      /\ maps.fpm.in = (IF maps.rm2 # Null THEN maps.rm2.out ELSE maps.rm1.out)
      /\ maps.fpm.in = 3 /\ maps.fpm.out = 1
      /\ pc = "update_x" => <<"wm", i>> \in Range(mesh[1])

\* the operations C2 names
StepOps ==
    {"wkm.update", "mesh1.normalize", "mesh1.integral", "snapshot",
     "wm.apply", "rm1.apply", "rm2.apply", "fpm.apply",
     "mesh1.updateXProjection"}

IsStepOp(op) == op \in StepOps

\* the order C2 states for loop step n
StatedOrder(n) ==
    (IF maps.wkm # Null THEN <<"wkm.update">> ELSE << >>)
    \o << IF o.renormalize > 0 /\ n % o.renormalize = 0
          THEN "mesh1.normalize" ELSE "mesh1.integral" >>
    \o (IF o.outstep > 0 /\ n % o.outstep = 0 THEN <<"snapshot">> ELSE << >>)
    \o << "wm.apply", "rm1.apply" >>
    \o (IF maps.rm2 # Null THEN <<"rm2.apply">> ELSE << >>)
    \o << "fpm.apply", "mesh1.updateXProjection" >>

\* C2: in every step of the main loop the operations happen in this order:
\* wake update (when a wake kick map exists), normalize or integral, the
\* snapshot block (on output steps), wm.apply, rm1.apply, rm2.apply (when
\* present), fpm.apply, and mesh1.updateXProjection last.
C2_StepOrder ==
    prog = "main" =>
      /\ pc \in Range(LoopOrder) =>
            /\ IsPrefix(SelectSeq(oplog, IsStepOp), StatedOrder(i))
            /\ pc = "wm_apply" => ~("wm.apply" \in Range(oplog))
            /\ pc = "update_x" => "fpm.apply" \in Range(oplog)
      /\ (pc \in {"loop_head", "final_save", "finish"} /\ i > 0) =>
            SelectSeq(oplog, IsStepOp) = StatedOrder(i - 1)

C2_Witness ==
    /\ prog = "main" /\ pc = "loop_head" /\ i >= 2
    /\ maps.wkm # Null /\ maps.rm2 # Null
    /\ "snapshot" \in Range(oplog)
    /\ "mesh1.integral" \in Range(oplog)

\* the consumers C3 names
XConsumers ==
    {"pre.integral", "wkm.update", "normalize", "integral",
     "final.update", "final.normalize", "final.integral"}

\* C3: whenever the wake update, integral() or normalize() reads mesh1's
\* x-projection (before the loop, in the loop, in the final save),
\* updateXProjection() has run after the last write to mesh1's data.
C3_NoStaleXProjectionRead == staleReads \cap XConsumers = {}

C3_Witness ==
    /\ prog = "main" /\ pc = "exit" /\ status = "EXIT_SUCCESS"
    /\ i >= 2 /\ hdf_file
    /\ maps.wkm # Null /\ maps.rm2 # Null
    /\ o.renormalize > 0

ConfigInvalid ==
    {"impedance_short", "unknown_format", "h5_mismatch", "nonsquare_png"}

\* C8: when a ConfigInvalid condition is detected during construction (short
\* impedance file, start distribution of unknown format, HDF5 start
\* distribution of another grid size, non-square image) the run ends before
\* the loop: no map is applied and no snapshot is emitted.
C8_ConfigInvalidEndsBeforeLoop ==
    detected \cap ConfigInvalid # {} =>
      /\ pc = "exit"
      /\ nApplied = 0
      /\ nSnap = 0
      /\ i = 0 /\ oplog = << >>

C8_Witness ==
    /\ prog = "main" /\ pc = "exit"
    /\ "impedance_short" \in detected
    /\ o.ps_size > 0
    /\ 1 \in meshes

\* C9: without a start distribution file and with grid size 0 construction
\* is fatal: the run stops before any mesh, impedance or map is built and
\* the loop is never entered.
C9_ZeroGridIsFatal ==
    "zero_grid_no_file" \in detected =>
      /\ pc = "exit"
      /\ meshes = {}
      /\ impedance = "null"
      /\ maps = NoMaps
      /\ nApplied = 0

ConstructionErrors ==
    {"parse_exception", "impedance_short", "unknown_format", "h5_mismatch"}

\* C10: a run that aborts during construction (option parsing exception,
\* invalid impedance file, unknown or mismatching start distribution) ends
\* with an exit status other than the success status of a full run.
C10_ConstructionErrorsSurfaced ==
    (pc = "exit" /\ detected \cap ConstructionErrors # {}) =>
       status # "EXIT_SUCCESS"


\* C11: if mesh1's integral becomes non-finite in a step of the main loop,
\* the loop halts at that step: control is either still in front of the
\* first apply of that step or behind the loop; no map is applied and no
\* further step is begun.
C11_HaltsOnDivergence ==
    diverged => pc \in {"output", "wm_apply", "final_save", "finish", "exit"}

\* C12: if setting up the accelerator throws, the accelerator-active flag is
\* false from then on, the run goes on, and it goes on on the host path:
\* control never reaches a device call that is made with the flag false.
C12_FallsBackToHost ==
    "device_unavailable" \in detected =>
      /\ ~oclActive
      /\ pc # "h5_sync"

\* C13: for every step count and every finite rotations >= 0 the loop ends
\* after exactly steps x rotations passes (rounded up), and the unsigned
\* counter never wraps before the bound is reached.
C13_LoopRunsToBound ==
    /\ ~lp.wrapped
    /\ lp.pc = "done" => lp.n = (lp.steps * lp.rot2 + 1) \div 2

\* how often op occurs in the log
Count(log, op) == Cardinality({ n \in DOMAIN log : log[n] = op })

\* the positions of the loop body behind the normalize-or-integral statement
BehindRenormalize ==
    {"output", "wm_apply", "rm1_apply", "rm2_apply", "fpm_apply", "update_x"}

\* the positions of the loop body behind the snapshot block
BehindOutput ==
    {"wm_apply", "rm1_apply", "rm2_apply", "fpm_apply", "update_x"}

\* C14: in loop step i exactly one of mesh1.normalize() and mesh1.integral()
\* is executed: normalize() if and only if renormalize > 0 and renormalize
\* divides i, integral() otherwise; with renormalize = 0 normalize() is never
\* called in the loop (and the modulo is not evaluated).
C14_NormalizeOrIntegral ==
    prog = "main" =>
      /\ pc \in BehindRenormalize =>
           /\ Count(oplog, "mesh1.normalize") + Count(oplog, "mesh1.integral") = 1
           /\ Count(oplog, "mesh1.normalize") = 1
                <=> (o.renormalize > 0 /\ i % o.renormalize = 0)
      /\ pc \in {"wake_update", "renormalize"} =>
           Count(oplog, "mesh1.normalize") + Count(oplog, "mesh1.integral") = 0
      /\ (pc \in Range(LoopOrder) /\ o.renormalize = 0) =>
           Count(oplog, "mesh1.normalize") = 0

C14_Witness ==
    /\ prog = "main" /\ pc = "wm_apply"
    /\ i = 1
    /\ o.renormalize > 1
    /\ Count(oplog, "mesh1.integral") = 1

\* C15: the snapshot block runs in loop step i if and only if outstep > 0
\* and outstep divides i: the first snapshot is taken in step 0 before any
\* map is applied, the snapshots are outstep steps apart, and with
\* outstep = 0 no snapshot is taken in the loop.
C15_SnapshotSteps ==
    prog = "main" =>
      /\ pc \in BehindOutput =>
           /\ Count(oplog, "snapshot")
                = (IF o.outstep > 0 /\ i % o.outstep = 0 THEN 1 ELSE 0)
           /\ nSnap = (IF o.outstep = 0 THEN 0 ELSE (i \div o.outstep) + 1)
      /\ pc \in {"wake_update", "renormalize", "output"} =>
           /\ Count(oplog, "snapshot") = 0
           /\ nSnap = (IF o.outstep = 0 THEN 0
                       ELSE (i + o.outstep - 1) \div o.outstep)
      /\ (pc = "wm_apply" /\ i = 0) => nApplied = 0
      /\ pc \in Range(LoopOrder) \cup {"loop_head", "final_save"} =>
           outstepnr = nSnap

C15_Witness ==
    /\ prog = "main" /\ pc = "wm_apply"
    /\ i = 1
    /\ o.outstep > 1
    /\ nSnap = 1

\* the apply and applyTo calls of a log
ApplyOps ==
    { "wm.apply", "wm.applyTo", "rm1.apply", "rm1.applyTo",
      "rm2.apply", "rm2.applyTo", "fpm.apply", "fpm.applyTo" }

IsApplyOp(op) == op \in ApplyOps

\* the calls C17 states for one step
StatedApplies ==
    << "wm.apply", "wm.applyTo", "rm1.apply", "rm1.applyTo" >>
    \o (IF maps.rm2 # Null THEN << "rm2.apply", "rm2.applyTo" >> ELSE << >>)
    \o << "fpm.apply", "fpm.applyTo" >>

\* C17: in every loop step the tracked particles go through applyTo of the
\* same maps in the same order as the mesh goes through apply: wm, rm1, rm2
\* (when present), fpm; each applyTo is called once, directly after the
\* apply of the same map and before the apply of the next map.
C17_ApplyToFollowsApply ==
    prog = "main" =>
      /\ pc \in Range(LoopOrder) =>
           /\ IsPrefix(SelectSeq(oplog, IsApplyOp), StatedApplies)
           /\ Len(SelectSeq(oplog, IsApplyOp)) % 2 = 0
      /\ pc = "update_x" => SelectSeq(oplog, IsApplyOp) = StatedApplies

C17_Witness ==
    /\ prog = "main" /\ pc = "update_x"
    /\ i = 1
    /\ maps.rm2 # Null
    /\ Count(oplog, "rm2.applyTo") = 1

\* what is handed to a sink, and the synchronisation it needs
SinkOf ==
    [ op \in {"hdf.append.mesh1", "gui.psv.mesh1", "gui.bpv.mesh1",
              "png.write.mesh1"} |-> "mesh1.syncCLMem" ]
    @@ [ op \in {"hdf.append.wkm", "gui.wpv.wkm"} |-> "wkm.syncCLMem" ]

\* the entries that begin an output step or the final save
BlockStart == {"snapshot", "final_save"}

\* entry m of the log is the synchronisation that sink entry n needs, made
\* in the same block and after the moments
SyncedBy(log, m, n) ==
    /\ m < n
    /\ log[m] = SinkOf[log[n]]
    /\ \A k \in m .. n : log[k] \notin BlockStart
    /\ \E v \in 1 .. (m - 1) :
          /\ log[v] = "mesh1.variance1"
          /\ \A k \in v .. m : log[k] \notin BlockStart

\* the sinks of a set of kinds are served in order
SinksInOrder(kinds) ==
    (prog = "main" /\ oclActive) =>
      \A n \in DOMAIN sinklog :
         sinklog[n] \in kinds =>
            \E m \in DOMAIN sinklog : SyncedBy(sinklog, m, n)

\* C16: with the accelerator active, in every output step and in the final
\* save the moments are collected first, then mesh1 and the wake kick map
\* are synchronised device-to-host, and only then is either handed to the
\* HDF5 file or to the display; neither sink receives host data that was
\* not synchronised in the same step.
C16_SyncBeforeSinks == SinksInOrder(DOMAIN SinkOf \ {"png.write.mesh1"})

\* an output step with both sinks and a wake kick map, then the final save
C16_Witness ==
    /\ prog = "main" /\ oclActive
    /\ {"snapshot", "wkm.syncCLMem", "hdf.append.wkm", "gui.wpv.wkm",
        "final_save"} \subseteq Range(sinklog)
    /\ Count(sinklog, "hdf.append.mesh1") = 2

\* the PNG file written at the end of main() holds synchronised data too
SyncBeforePNG == SinksInOrder({"png.write.mesh1"})

\* in the record of constructions every b was preceded by an a
Before(a, b) ==
    \A n \in DOMAIN order :
       order[n] = b => \E m \in 1 .. (n - 1) : order[m] = a

\* C18: construction happens in the order impedance, mirror meshes mesh2
\* and mesh3, rotation or RF-kick/drift maps, Fokker-Planck map, and the
\* electric field with the wake map last.
C18_ConstructionOrder ==
    IsPrefix(order, << "impedance", "mesh2", "mesh3", "rotation",
                       "fokker_planck", "field", "wake" >>)

\* every object of the construction has been built
C18_Witness == MapsBuilt /\ Len(order) = 7 /\ order[7] = "wake"

\* C18 as stated: impedance, then the electric field and the wake map, then
\* the rotation or RF-kick/drift maps, then the Fokker-Planck map, and the
\* mirror meshes mesh2 and mesh3 last
C18_MeshesLast ==
    /\ Before("impedance", "field") /\ Before("field", "wake")
    /\ Before("wake", "rotation") /\ Before("rotation", "fokker_planck")
    /\ Before("fokker_planck", "mesh2") /\ Before("fokker_planck", "mesh3")

\* the calls of variance(0) and of variance(1) on mesh1
Variance0Calls == {"variance0", "final.variance0"}
Variance1Calls == {"pre.variance1", "variance1", "final.variance1"}

\* C19: every call of variance(axis) on mesh1 (before the loop, in each
\* output step, in the final save) is made after the projection of that
\* axis has been refreshed following the most recent modification of the
\* cell data, also in the steps in which normalize() ran just before.
C19_VarianceAfterRefresh ==
    prog = "main" => staleReads \cap (Variance0Calls \cup Variance1Calls) = {}

\* the part of C19 about variance(1) and the y-projection
VarianceOfYAfterRefresh ==
    prog = "main" => staleReads \cap Variance1Calls = {}

\* the part of C19 about variance(0) in the runs that never call normalize()
VarianceOfXAfterRefreshUnnormalized ==
    (prog = "main" /\ o.renormalize = 0)
       => staleReads \cap Variance0Calls = {}

\* the variant none has been built and applied to a mesh
NoneApplied == fp_pc = "applied" /\ fp.fpt = "none"

\* C20: the Fokker-Planck map of variant none passes the cells of the
\* interior rows 0 < j < N-1 through unchanged and writes 0 to the cells of
\* the boundary rows j = 0 and j = N-1, so it stands for the Identity map on
\* the interior rows only.
C20_NonePassesInteriorOnly ==
    NoneApplied =>
      \A ix \in Columns :
         /\ \A j \in InteriorRows :
               mesh_out[ix * ysizeOf(fp) + j]
                  = RInt(mesh_in[ix * ysizeOf(fp) + j])
         /\ \A j \in BoundaryRows : mesh_out[ix * ysizeOf(fp) + j] = Zero

\* the variant none applied to a mesh with interior and boundary rows that
\* holds no zero cell
C20_Witness ==
    /\ NoneApplied
    /\ xsizeOf(fp) >= 2
    /\ ysizeOf(fp) >= 3
    /\ \A c \in Cells(fp) : mesh_in[c] # 0
    /\ \E c \in Cells(fp) : mesh_out[c] # Zero

\* C20 as stated: the variant none is a strict pass-through, every output
\* cell equals the input cell, the boundary rows included
C20_NoneIsIdentity ==
    NoneApplied => \A c \in Cells(fp) : mesh_out[c] = RInt(mesh_in[c])

\* the stencil row a variant v gets from the arguments of the map at hand
RowOf(v, ix, j) == InteriorRow([fp EXCEPT !.fpt = v], ix, j)

\* the weight the row of variant v gives to the cell at distance d (-1, 0, 1)
\* of the output cell: the sum over the entries that name this cell
WeightAt(v, ix, j, d) ==
    LET row == RowOf(v, ix, j)
        c   == ix * ysizeOf(fp) + j + d
        w(k) == IF row[k].index = c THEN row[k].weight ELSE Zero
    IN RAdd(RAdd(w(1), w(2)), w(3))

\* what variant v adds to the pass-through at distance d
TermOf(v, ix, j, d) ==
    RSub(WeightAt(v, ix, j, d), WeightAt("none", ix, j, d))

\* C21: on interior rows damping-only has no 1/dp^2 term, diffusion-only has
\* no p_j term and no +e in the centre weight, none has centre weight 1 and
\* nothing else, and the full stencil is the superposition of the two: at
\* each neighbour position full - none = (damping-only - none) +
\* (diffusion-only - none).
C21_VariantsOwnTermsOnly ==
    Built =>
      \A ix \in Columns : \A j \in InteriorRows :
        /\ \A k \in 0 .. 2 : Entry(ix, j, k) = RowOf(fp.fpt, ix, j)[k + 1]
        /\ WeightAt("none", ix, j, -1) = Zero
        /\ WeightAt("none", ix, j, 0) = One
        /\ WeightAt("none", ix, j, 1) = Zero
        /\ WeightAt("damping_only", ix, j, -1) = RMul(EOver2D, Pj(j))
        /\ WeightAt("damping_only", ix, j, 0) = RAdd(One, fp.e0)
        /\ WeightAt("damping_only", ix, j, 1) = RNeg(RMul(EOver2D, Pj(j)))
        /\ WeightAt("diffusion_only", ix, j, -1) = EOverD2
        /\ WeightAt("diffusion_only", ix, j, 0) =
               RSub(One, RMul(Two, EOverD2))
        /\ WeightAt("diffusion_only", ix, j, 1) = EOverD2
        /\ \A d \in {-1, 0, 1} :
              TermOf("full", ix, j, d) =
                 RAdd(TermOf("damping_only", ix, j, d),
                      TermOf("diffusion_only", ix, j, d))

\* a finished stencil with interior rows, damping and diffusion both at
\* work and a row off the axis p = 0
C21_Witness ==
    /\ Built
    /\ fp.e0 # Zero
    /\ xsizeOf(fp) >= 2
    /\ \E j \in InteriorRows : Pj(j) # Zero
    /\ \E ix \in Columns : \E j \in InteriorRows :
          /\ TermOf("damping_only", ix, j, -1) # Zero
          /\ TermOf("diffusion_only", ix, j, -1) # Zero

(***************************************************************************)
(* Claims about the impedance (SpecImp).                                   *)
(***************************************************************************)
\* C22: the impedance is modified, by the in-place addition of the
\* resistive wall and the collimator, only before the ElectricField is
\* constructed; from then to the end of the run nothing writes to it.
C22_ImpedanceFrozenAtField ==
    /\ (im.field \/ im.pc = "deleted") => im.value = im.atField
    /\ (~im.field /\ im.pc # "deleted") => im.atField = NoImpedance

\* a composed impedance that has gone through the loop to the end of the run
C22_Witness ==
    /\ im.pc = "deleted"
    /\ im.n = MaxSteps
    /\ {"ResistiveWall", "CollimatorImpedance"} \subseteq im.atField

(***************************************************************************)
(* Further claims about the orchestrator (Spec).                           *)
(***************************************************************************)
\* a pass of the Haissinski loop is about to run
HaissinskiPassAhead == prog = "main" /\ pc = "haissinski" /\ hcount < o.haisi

\* C23: in the Haissinski loop no null handle is dereferenced: whenever a
\* pass runs, which calls wkm->update(), wkm->getForce() and
\* display->draw(), the wake kick map and the display exist.
C23_HaissinskiHandlesExist ==
    HaissinskiPassAhead => (maps.wkm # Null /\ display)

\* the part of C23 that holds: with a wake kick map and a display every
\* pass goes on
HaissinskiWithHandlesGoesOn ==
    (prog = "main" /\ maps.wm # Null /\ maps.wkm # Null /\ display
       /\ status = "crashed") => hcount = o.haisi

\* the synchronisation calls of the output steps and of the final save
SyncOps == {"mesh1.syncCLMem", "wkm.syncCLMem"}

\* the part of C24 about the loop and the final save
SyncInLoopOnlyWhileActive ==
    (prog = "main" /\ Range(sinklog) \cap SyncOps # {}) => oclActive

\* C24: every device synchronisation call of the orchestrator, on mesh1 or
\* on the wake kick map, is issued only while the accelerator-active flag
\* is true: on no initialisation path, in no loop step and in no final save
\* is a call made with the flag false.
C24_SyncOnlyWhileActive ==
    /\ SyncInLoopOnlyWhileActive
    /\ (prog = "main" /\ pc = "h5_sync") => oclActive

\* the kind of wake stage C25 states for a configuration
StatedWakeKind(wakefileLong, gap) ==
    IF wakefileLong THEN "WakeFunctionMap"
    ELSE IF gap # 0 THEN "WakePotentialMap"
    ELSE "Identity"

\* the wake stage and the wake kick handle built for a configuration are as
\* C25 states
WakeStageAsStated(wakefileLong, gap) ==
    LET wkm == WakeKick(wakefileLong, gap)
        wm  == WakeStage(wkm)
    IN /\ wm # Null /\ wm.in = 1 /\ wm.out = 2
       /\ wm.kind = StatedWakeKind(wakefileLong, gap)
       /\ (wkm # Null) <=> (wm.kind # "Identity")
       /\ wkm # Null => wkm = wm

\* the same for every wake file case and every sign of the gap
WakeStageForEveryConfiguration ==
    \A wakefileLong \in BOOLEAN : \A gap \in {-1, 0, 1} :
       WakeStageAsStated(wakefileLong, gap)

\* C25: for every configuration the wake stage wm is non-null and maps
\* mesh1 to mesh2; it is a WakeFunctionMap with a wake file name longer than
\* 4 characters, otherwise a WakePotentialMap with a gap other than 0
\* (positive or negative), otherwise an Identity map; wkm is non-null
\* exactly when wm is not the Identity map, and wkm.update() is called in a
\* loop step exactly in those configurations.
C25_WakeStage ==
    /\ WakeStageForEveryConfiguration
    /\ MapsBuilt =>
      /\ \E wakefileLong \in BOOLEAN :
            /\ maps.wkm = WakeKick(wakefileLong, o.gap)
            /\ maps.wm = WakeStage(maps.wkm)
            /\ WakeStageAsStated(wakefileLong, o.gap)
      /\ maps.wm.kind = "WakePotentialMap" => o.gap # 0
      /\ (maps.wm.kind = "Identity" \/ maps.wkm = Null) => o.gap = 0
      /\ pc \in BehindRenormalize \cup {"renormalize"} =>
            Count(oplog, "wkm.update")
               = (IF maps.wm.kind # "Identity" THEN 1 ELSE 0)
      /\ pc = "wake_update" => Count(oplog, "wkm.update") = 0

\* a loop step with a wake potential map built for a negative gap
C25_Witness ==
    /\ MapsBuilt
    /\ o.gap < 0
    /\ maps.wkm.kind = "WakePotentialMap"
    /\ pc = "wm_apply"
    /\ Count(oplog, "wkm.update") = 1

\* the time stamps appended so far are strictly increasing
TimesIncrease ==
    \A m, n \in DOMAIN times : m < n => RLess(times[m], times[n])

\* the time stamps of the snapshots of the loop: step i carries i/steps
LoopTimesAsStated ==
    /\ hdf_file => Len(times) = nSnap
    /\ ~hdf_file => times = << >>
    /\ (hdf_file /\ pc \in BehindOutput /\ OutputStep(o.outstep, i)) =>
          times[Len(times)] = R(i, o.steps)

\* the first place of an operation in a log, 0 when it is not there
Pos(log, op) ==
    IF \E n \in DOMAIN log : log[n] = op
    THEN CHOOSE n \in DOMAIN log :
            log[n] = op /\ \A m \in 1 .. (n - 1) : log[m] # op
    ELSE 0

\* in the log of the final save a comes before the time stamp
BeforeFinalStamp(a) ==
    LET f == Pos(sinklog, "final_save")
    IN \E m, n \in (f + 1) .. Len(sinklog) :
          m < n /\ sinklog[m] = a /\ sinklog[n] = "hdf.appendTime"

\* the final save has been made into an HDF5 file
FinalSaved == prog = "main" /\ pc = "finish" /\ hdf_file

\* one final time stamp, equal to rotations and above all those of the loop
FinalTimeAsStated ==
    FinalSaved =>
      /\ times[Len(times)] = R(o.rot2, 2)
      /\ Len(times) = outstepnr + 1
      /\ \A n \in 1 .. (Len(times) - 1) :
            RLess(times[n], times[Len(times)])

\* C26: with an HDF5 output file the time stamps appended are strictly
\* increasing over the whole run: the snapshot of loop step i carries
\* i/steps, and after the loop exactly one final snapshot is appended with
\* the time rotations, above every time of the loop; the final snapshot is
\* taken after a wake update when a wake kick map exists, and after a
\* normalize() when renormalize > 0, whatever the step count is.
C26_TimeStampsIncrease ==
    prog = "main" =>
      /\ TimesIncrease
      /\ LoopTimesAsStated
      /\ FinalTimeAsStated
      /\ FinalSaved =>
           /\ (maps.wkm # Null) <=> BeforeFinalStamp("final.wkm.update")
           /\ (o.renormalize > 0) <=> BeforeFinalStamp("final.normalize")
           /\ (o.renormalize = 0) <=> BeforeFinalStamp("final.integral")

\* a final save behind a snapshot of the loop, with a wake kick map and a
\* step count that renormalize does not divide
C26_Witness ==
    /\ FinalSaved
    /\ Len(times) >= 2
    /\ maps.wkm # Null
    /\ o.renormalize > 0 /\ i % o.renormalize # 0

\* C26 as stated: the same, with the final snapshot taken after a wake
\* update in every configuration
C26_FinalAfterWakeUpdate ==
    prog = "main" =>
      /\ TimesIncrease
      /\ LoopTimesAsStated
      /\ FinalTimeAsStated
      /\ FinalSaved =>
           /\ BeforeFinalStamp("final.wkm.update")
           /\ (o.renormalize > 0) => BeforeFinalStamp("final.normalize")

\* csrlog has been allocated
CsrlogAllocated == prog = "main" /\ impedance = "built"

\* the part of C27 that holds: with outstep > 0 the snapshot counter stays
\* below the size of csrlog and never exceeds ceil(steps*rotations/outstep)
CsrlogWritesInside ==
    (CsrlogAllocated /\ o.outstep > 0) =>
       /\ outstepnr < CsrlogSize(o.steps, o.rot2, o.outstep)
       /\ 2 * o.outstep * outstepnr < o.steps * o.rot2 + 2 * o.outstep

\* the snapshot counter reaches the last element of csrlog
CsrlogLastElementUsed ==
    /\ CsrlogAllocated /\ o.outstep > 0 /\ pc = "wm_apply"
    /\ outstepnr > 1
    /\ outstepnr = CsrlogSize(o.steps, o.rot2, o.outstep) - 1

\* C27: for every steps >= 1, rotations >= 0 and outstep >= 0 the buffer
\* csrlog is allocated with a finite size and every write csrlog[outstepnr]
\* uses an index below that size: outstepnr never exceeds
\* ceil(steps*rotations/outstep).
C27_CsrlogFiniteAndWritesInside ==
    CsrlogAllocated =>
       /\ CsrlogFinite(o.outstep)
       /\ outstepnr < CsrlogSize(o.steps, o.rot2, o.outstep)

====
